---- MODULE Spec2Model ----
(***************************************************************************)
(* Session / conversation state machine of the empathic chatbot study:     *)
(* BotManager (src/src/chatbot/bot_manager.py), the participant flow of    *)
(* src/src/app.py, the command-line tester (src/scripts/agent_cli.py), the *)
(* lifecycle tracker (src/src/chatbot/conversation_handler.py), the        *)
(* assignment balancer (src/src/utils/random_assignment.py) and the        *)
(* participant manager (src/src/utils/participant_manager.py).             *)
(*                                                                         *)
(* A text is a sequence of one-character strings.  Python's None for a     *)
(* text is the one-element sequence NoneText, which no text equals.        *)
(***************************************************************************)
EXTENDS Integers, Sequences, FiniteSets, TLC

VARIABLES
    sessions,        \* BotManager.sessions: session_id -> {participant_id, bot_type, history}
    crisis,          \* BotManager.crisis: the detector, or absent
    prompts,         \* BotManager.prompts: bot_type -> system prompt text
    crisis_file,     \* text of config/crisis_response.txt ("" when absent)
    inflight,        \* the completion call a get_bot_response is blocked in, if any
    issued,          \* session ids uuid4 has produced so far
    op,              \* the operation that ran last
    result,          \* what the last get_bot_response gave its caller
    api,             \* what the last get_bot_response did with its collaborators
    st,              \* st.session_state of one browser session
    max_messages,    \* config['conversation']['max_messages']
    participants,    \* persisted participant records
    db_messages,     \* persisted messages
    crisis_flags,    \* persisted crisis flags
    assigned,        \* caller -> the bot type assign_bot_type returned to it, "" when none is pending
    seen,            \* caller -> the distribution its pending assign_bot_type read
    live,            \* a BotManager kept for the whole conversation: its registry and its last payload
    conversations,   \* ConversationHandler.conversations: session_id -> conversation state
    active_sessions, \* ParticipantManager.active_sessions: session_id -> session data
    pending          \* caller -> the participant id generate_participant_id returned to it, "" when none

botVars == <<sessions, crisis, prompts, crisis_file, inflight, issued, op, result, api>>
appVars == <<st, max_messages, live>>
dbVars  == <<participants, db_messages, crisis_flags>>
assignVars == <<assigned, seen>>
trackerVars == <<conversations>>
pmVars  == <<active_sessions, pending>>
vars    == <<botVars, appVars, dbVars, assignVars, trackerVars, pmVars>>

(***************************************************************************)
(* Bounds of the model.                                                    *)
(***************************************************************************)
MaxBotTurns == 1          \* clear turns per session when BotManager is driven directly
MaxPayloadTurns == 12     \* clear turns of the one session of the payload specification
MaxCap == 3               \* largest configured max_messages
MaxParticipants == 6      \* participants persisted in the assignment specification
MaxSignups == 3           \* visitors who consent in the signup specification
MaxAssignments == 4       \* participants persisted when every assignment strategy is in use
MaxTrackerLog == 3        \* entries in the message log of one tracked conversation
MaxConcurrent == 3        \* participants persisted by the two interleaved callers
MaxTextLen == 3           \* longest --message given to the command-line tester
MaxCount == 1             \* largest count in a distribution handed to the balancer

(***************************************************************************)
(* Texts.                                                                  *)
(***************************************************************************)
NoneText == <<"<None>">>
EmptyText == <<>>

Lower(c) == CASE c = "K" -> "k" [] c = "E" -> "e" [] OTHER -> c

lower(t) == [i \in 1..Len(t) |-> Lower(t[i])]

RECURSIVE lstrip(_)
lstrip(t) == IF t # <<>> /\ Head(t) = " " THEN lstrip(Tail(t)) ELSE t

RECURSIVE rstrip(_)
rstrip(t) ==
    IF t # <<>> /\ t[Len(t)] = " " THEN rstrip(SubSeq(t, 1, Len(t) - 1)) ELSE t

strip(t) == rstrip(lstrip(t))

IsSubstring(k, t) ==
    \E i \in 0..(Len(t) - Len(k)) : SubSeq(t, i + 1, i + Len(k)) = k

MinOf(S) == CHOOSE x \in S : \A y \in S : x <= y
MaxOf(S) == CHOOSE x \in S : \A y \in S : x >= y

\* Python's seq[-n:]
LastN(s, n) == IF Len(s) <= n THEN s ELSE SubSeq(s, Len(s) - n + 1, Len(s))

(***************************************************************************)
(* Inputs.                                                                 *)
(***************************************************************************)
Clear1  == <<"h">>
Clear2  == <<"h", "h">>
Crisis1 == <<"h", "K", "e">>

\* chat.completions.create: a result with content, or an exception
ApiOk   == [ok |-> TRUE,  content |-> <<"o", "k", " ">>]
ApiFail == [ok |-> FALSE, content |-> NoneText]
Completions == {ApiOk, ApiFail}

(***************************************************************************)
(* CrisisDetector.  crisis_detector.py is not among the sources; it is     *)
(* modelled from section 4.1 of the specification.                         *)
(***************************************************************************)
Keyword1 == <<"k", "e">>
Keyword2 == <<"e">>
SafetyText == <<"9", "8", "8">>
FileSafetyText == <<"9", "1", "1">>
Raises == <<"<raises>">>

Keyword3 == <<"K">>
Keyword4 == <<"h", "e">>

NoDetector == [present |-> FALSE, keywords |-> <<>>, response |-> NoneText]
Detector1  == [present |-> TRUE, keywords |-> <<Keyword1, Keyword2>>, response |-> SafetyText]
Detector2  == [present |-> TRUE, keywords |-> <<Keyword3, Keyword4>>, response |-> SafetyText]
\* a detector whose keyword list failed to load
DetectorNoKeywords == [present |-> TRUE, keywords |-> <<>>, response |-> SafetyText]
\* a detector whose configured response is the empty text
DetectorEmptyResponse ==
    [present |-> TRUE, keywords |-> <<Keyword1, Keyword2>>, response |-> EmptyText]
DetectorBroken ==
    [present |-> TRUE, keywords |-> <<Keyword1, Keyword2>>, response |-> Raises]

check_message(det, text) ==
    LET t == lower(text)
        hits == {i \in 1..Len(det.keywords) : IsSubstring(lower(det.keywords[i]), t)}
    IN  IF strip(text) = <<>> \/ hits = {}
        THEN [is_crisis |-> FALSE, keyword |-> NoneText]
        ELSE [is_crisis |-> TRUE, keyword |-> det.keywords[MinOf(hits)]]

(***************************************************************************)
(* BotManager.                                                             *)
(***************************************************************************)
bot_types == <<"cognitive", "emotional", "motivational", "control">>
BotTypes == {bot_types[i] : i \in 1..Len(bot_types)}

HistoryWindow == 20

Prompt(b) == <<"p", b>>
PromptsAll == [b \in BotTypes |-> IF b = "control" THEN EmptyText ELSE Prompt(b)]
\* _read_text gives "" for a prompt file that is missing
PromptsMissingOne ==
    [b \in BotTypes |-> IF b \in {"control", "emotional"} THEN EmptyText ELSE Prompt(b)]

ErrorText == <<"s", "o", "r", "r", "y">>
DefaultSafetyText == <<"c", "a", "l", "l">>

EmptyRegistry == [s \in {} |-> [participant_id |-> "", bot_type |-> "", history |-> <<>>]]

Msg(role, content) == [role |-> role, content |-> content]

NoResult ==
    [kind |-> "none", bot_response |-> NoneText, crisis_detected |-> FALSE,
     detected_keyword |-> NoneText]
NoApi ==
    [checked |-> FALSE, raised |-> FALSE, matched |-> FALSE, called |-> FALSE,
     messages |-> <<>>, failed |-> FALSE]
NoOp == [name |-> "init", session_id |-> "", user_message |-> NoneText]

\* bot_manager.py:189-201
_crisis_text(det, file_text) ==
    IF det.present /\ det.response # Raises
    THEN det.response
    ELSE IF file_text # EmptyText THEN file_text ELSE DefaultSafetyText

\* a manager that takes a policy that raises for a match
CrisisCheckFailsClosed(det, user_message, check_raises) ==
    IF ~det.present
    THEN [asked |-> FALSE, raised |-> FALSE, is_crisis |-> FALSE, keyword |-> NoneText]
    ELSE IF check_raises
    THEN [asked |-> TRUE, raised |-> TRUE, is_crisis |-> TRUE, keyword |-> NoneText]
    ELSE [asked |-> TRUE, raised |-> FALSE] @@ check_message(det, user_message)

\* a manager that keeps the policy's verdict and loses its keyword
CrisisCheckDropsKeyword(det, user_message, check_raises) ==
    IF ~det.present \/ check_raises
    THEN [asked |-> det.present, raised |-> det.present, is_crisis |-> FALSE, keyword |-> NoneText]
    ELSE [asked |-> TRUE, raised |-> FALSE,
          is_crisis |-> check_message(det, user_message).is_crisis, keyword |-> NoneText]

\* bot_manager.py:108-112: (is_crisis, detected_keyword), whether the policy was
\* asked and whether it raised
CrisisCheck(det, user_message, check_raises) ==
    IF ~det.present
    THEN [asked |-> FALSE, raised |-> FALSE, is_crisis |-> FALSE, keyword |-> NoneText]
    ELSE IF check_raises
    THEN [asked |-> TRUE, raised |-> TRUE, is_crisis |-> FALSE, keyword |-> NoneText]
    ELSE [asked |-> TRUE, raised |-> FALSE] @@ check_message(det, user_message)

\* a manager that never takes the crisis branch
ShortCircuitsNever(chk) == FALSE

\* bot_manager.py:113
ShortCircuits(chk) == chk.is_crisis

\* bot_manager.py:114-118
CrisisReturn(det, file_text, keyword) ==
    [kind |-> "return", bot_response |-> _crisis_text(det, file_text),
     crisis_detected |-> TRUE, detected_keyword |-> keyword]

\* a payload built from the first entries of the history (history[:20])
BuildMessagesFirstWindow(system_prompt, history, user_message) ==
    (IF system_prompt # EmptyText THEN <<Msg("system", system_prompt)>> ELSE <<>>)
        \o SubSeq(history, 1, IF Len(history) < HistoryWindow THEN Len(history) ELSE HistoryWindow)
        \o <<Msg("user", user_message)>>

\* bot_manager.py:123-130
BuildMessages(system_prompt, history, user_message) ==
    (IF system_prompt # EmptyText THEN <<Msg("system", system_prompt)>> ELSE <<>>)
        \o LastN(history, HistoryWindow)
        \o <<Msg("user", user_message)>>

\* bot_manager.py:171-185
_call_model(completion) ==
    IF completion.ok
    THEN strip(IF completion.content = NoneText THEN EmptyText ELSE completion.content)
    ELSE ErrorText

\* bot_manager.py:135-137
UpdateHistory(history, user_message, reply) ==
    history \o <<Msg("user", user_message), Msg("assistant", reply)>>

\* a crisis turn logged in the history like a clear one
CrisisHistoryAppended(history, user_message, reply) ==
    history \o <<Msg("user", user_message), Msg("assistant", reply)>>

\* bot_manager.py:108-118: the crisis branch returns before the history is touched
CrisisHistory(history, user_message, reply) == history

\* bot_manager.py:139-143
NormalReturn(reply) ==
    [kind |-> "return", bot_response |-> reply, crisis_detected |-> FALSE,
     detected_keyword |-> NoneText]

\* an unknown session answered with an ordinary result instead of an error
SessionNotFoundAsReply ==
    [kind |-> "return", bot_response |-> EmptyText, crisis_detected |-> FALSE,
     detected_keyword |-> NoneText]

\* bot_manager.py:104-105
SessionNotFound ==
    [kind |-> "raise", bot_response |-> NoneText, crisis_detected |-> FALSE,
     detected_keyword |-> NoneText]

\* bot_manager.py:102-143, as a function of the manager's state and the
\* collaborators' behaviour: the registry after, the result, the collaborator use
get_bot_response(reg, det, prm, file_text, session_id, user_message, check_raises, completion) ==
    IF session_id \notin DOMAIN reg
    THEN [sessions |-> reg, result |-> SessionNotFound, api |-> NoApi]
    ELSE
      LET sess == reg[session_id]
          chk == CrisisCheck(det, user_message, check_raises)
          system_prompt == prm[sess.bot_type]
          messages == BuildMessages(system_prompt, sess.history, user_message)
          reply == _call_model(completion)
      IN  IF ShortCircuits(chk)
          THEN [sessions |->
                    [reg EXCEPT ![session_id].history =
                        CrisisHistory(sess.history, user_message, _crisis_text(det, file_text))],
                result |-> CrisisReturn(det, file_text, chk.keyword),
                api |-> [checked |-> chk.asked, raised |-> chk.raised,
                         matched |-> chk.is_crisis,
                         called |-> FALSE, messages |-> <<>>, failed |-> FALSE]]
          ELSE [sessions |->
                    [reg EXCEPT ![session_id].history =
                        UpdateHistory(sess.history, user_message, reply)],
                result |-> NormalReturn(reply),
                api |-> [checked |-> chk.asked, raised |-> chk.raised,
                         matched |-> chk.is_crisis,
                         called |-> TRUE, messages |-> messages,
                         failed |-> ~completion.ok]]

\* bot_manager.py:91-100
create_new_session(reg, session_id, participant_id, bot_type) ==
    (session_id :> [participant_id |-> participant_id, bot_type |-> bot_type,
                    history |-> <<>>]) @@ reg

\* an end_session that empties the registry
end_session_clears(reg, session_id) == EmptyRegistry

\* an end_session that leaves the entry in the registry
end_session_keeps(reg, session_id) == reg

\* bot_manager.py:145-148
end_session(reg, session_id) ==
    [s \in DOMAIN reg \ {session_id} |-> reg[s]]

(***************************************************************************)
(* Configurations a BotManager can be constructed with                     *)
(* (bot_manager.py:54-87).                                                 *)
(***************************************************************************)
BotConfigs ==
    { [crisis |-> NoDetector,     prompts |-> PromptsAll,        crisis_file |-> EmptyText],
      [crisis |-> Detector1,      prompts |-> PromptsAll,        crisis_file |-> FileSafetyText],
      [crisis |-> DetectorBroken, prompts |-> PromptsMissingOne, crisis_file |-> FileSafetyText],
      [crisis |-> DetectorBroken, prompts |-> PromptsAll,        crisis_file |-> EmptyText] }

SessionIds == {"s1", "s2"}
\* the values uuid4 gives, in the order it gives them
SessionIdPool == <<"s1", "s2", "s3", "s4", "s5", "s6", "s7", "s8", "s9", "s10">>
ParticipantIdPool == <<"P1", "P2", "P3", "P4", "P5", "P6", "P7", "P8", "P9", "P10">>
Callers == {"c1", "c2"}
\* the participant id create_new_session draws for each session id
ParticipantOf == [s \in SessionIds |-> IF s = "s1" THEN "P1" ELSE "P2"]

\* a manager that has not been given a session yet
NoLive == [sessions |-> EmptyRegistry, api |-> NoApi]

\* conversation_handler.py:24
NoConversations ==
    [s \in {} |-> [participant_id |-> "", bot_type |-> "", current_message_num |-> 0,
                   max_messages |-> 0, is_active |-> FALSE, is_complete |-> FALSE,
                   ended |-> FALSE, end_reason |-> "", messages |-> <<>>]]

\* participant_manager.py:26
\* no get_bot_response is blocked in _call_model
NoCall == [active |-> FALSE, session_id |-> "", user_message |-> NoneText, waiting |-> FALSE]

\* no assign_bot_type of the caller is pending
NotRead == [read |-> FALSE, distribution |-> <<>>]

NoActiveSessions ==
    [s \in {} |-> [participant_id |-> "", bot_type |-> "", message_count |-> 0,
                   conversation_complete |-> FALSE]]

\* st.session_state before consent (chat_interface.initialize_session_state)
InitialSessionState ==
    [show_welcome |-> TRUE, conversation_active |-> FALSE, conversation_complete |-> FALSE,
     session_id |-> "", participant_id |-> "", bot_type |-> "", messages |-> <<>>,
     current_message_num |-> 0]

InitWith(cfg, cap) ==
    /\ sessions = EmptyRegistry
    /\ crisis = cfg.crisis
    /\ prompts = cfg.prompts
    /\ crisis_file = cfg.crisis_file
    /\ inflight = NoCall
    /\ issued = {}
    /\ op = NoOp
    /\ result = NoResult
    /\ api = NoApi
    /\ st = InitialSessionState
    /\ max_messages = cap
    /\ participants = <<>>
    /\ db_messages = <<>>
    /\ crisis_flags = <<>>
    /\ assigned = [c \in Callers |-> ""]
    /\ seen = [c \in Callers |-> NotRead]
    /\ live = NoLive
    /\ conversations = NoConversations
    /\ active_sessions = NoActiveSessions
    /\ pending = [c \in Callers |-> ""]

(***************************************************************************)
(* BotManager driven directly by a caller (scripts/agent_cli.py:92-140).   *)
(***************************************************************************)
CreateNewSession(session_id, participant_id, bot_type) ==
    /\ session_id \notin issued
    /\ sessions' = create_new_session(sessions, session_id, participant_id, bot_type)
    /\ issued' = issued \cup {session_id}
    /\ op' = [name |-> "create_new_session", session_id |-> session_id, user_message |-> NoneText]
    /\ result' = NoResult
    /\ api' = NoApi
    /\ UNCHANGED <<crisis, prompts, crisis_file, inflight, appVars, dbVars, assignVars, trackerVars, pmVars>>

GetBotResponse(session_id, user_message, check_raises, completion) ==
    LET r == get_bot_response(sessions, crisis, prompts, crisis_file, session_id, user_message, check_raises, completion)
    IN  /\ sessions' = r.sessions
        /\ result' = r.result
        /\ api' = r.api
        /\ op' = [name |-> "get_bot_response", session_id |-> session_id, user_message |-> user_message]
        /\ UNCHANGED <<crisis, prompts, crisis_file, inflight, issued, appVars, dbVars, assignVars, trackerVars, pmVars>>

EndSession(session_id) ==
    /\ sessions' = end_session(sessions, session_id)
    /\ op' = [name |-> "end_session", session_id |-> session_id, user_message |-> NoneText]
    /\ result' = NoResult
    /\ api' = NoApi
    /\ UNCHANGED <<crisis, prompts, crisis_file, inflight, issued, appVars, dbVars, assignVars, trackerVars, pmVars>>

BotInputs == {Clear1, Crisis1}

\* the bound on a session's history: at most `turns` clear turns
HistoryWithin(session_id, turns) ==
    session_id \in DOMAIN sessions => Len(sessions[session_id].history) <= 2 * turns

InitBot == \E cfg \in BotConfigs : InitWith(cfg, MaxCap)

NextBot ==
    \/ \E s \in SessionIds, b \in BotTypes : CreateNewSession(s, ParticipantOf[s], b)
    \/ \E s \in SessionIds, m \in BotInputs, x \in BOOLEAN, c \in Completions :
           GetBotResponse(s, m, x, c) /\ HistoryWithin(s, MaxBotTurns)'
    \/ \E s \in SessionIds : EndSession(s)

SpecBot == InitBot /\ [][NextBot]_vars

(***************************************************************************)
(* get_bot_response around its blocking completion call                    *)
(* (bot_manager.py:133): the part before the call, the call returning, and *)
(* a caller that stops waiting for the result in between.                  *)
(***************************************************************************)
\* bot_manager.py:102-133: up to the point where _call_model is entered
StartTurn(session_id, user_message, check_raises) ==
    LET r == get_bot_response(sessions, crisis, prompts, crisis_file, session_id, user_message, check_raises, ApiOk)
    IN  /\ ~inflight.active
        /\ IF r.api.called
           THEN /\ inflight' = [active |-> TRUE, session_id |-> session_id,
                                user_message |-> user_message, waiting |-> TRUE]
                /\ sessions' = sessions
                /\ result' = NoResult
                /\ api' = [r.api EXCEPT !.failed = FALSE]
                /\ op' = [name |-> "call_model", session_id |-> session_id, user_message |-> user_message]
           ELSE /\ inflight' = NoCall
                /\ sessions' = r.sessions
                /\ result' = r.result
                /\ api' = r.api
                /\ op' = [name |-> "get_bot_response", session_id |-> session_id, user_message |-> user_message]
        /\ UNCHANGED <<crisis, prompts, crisis_file, issued, appVars, dbVars, assignVars, trackerVars, pmVars>>

\* the caller's own timeout expires: it stops waiting for the turn
GiveUp ==
    /\ inflight.active
    /\ inflight.waiting
    /\ inflight' = [inflight EXCEPT !.waiting = FALSE]
    /\ op' = [name |-> "give_up", session_id |-> inflight.session_id, user_message |-> inflight.user_message]
    /\ result' = NoResult
    /\ UNCHANGED <<sessions, crisis, prompts, crisis_file, issued, api, appVars, dbVars, assignVars, trackerVars, pmVars>>

\* bot_manager.py:133-143: _call_model returns and get_bot_response runs to its end
CompleteCall(completion) ==
    LET reply == _call_model(completion)
        session_id == inflight.session_id
    IN  /\ inflight.active
        /\ sessions' = [sessions EXCEPT ![session_id].history =
                            UpdateHistory(@, inflight.user_message, reply)]
        /\ result' = IF inflight.waiting THEN NormalReturn(reply) ELSE NoResult
        /\ api' = [api EXCEPT !.failed = ~completion.ok]
        /\ inflight' = NoCall
        /\ op' = [name |-> "get_bot_response", session_id |-> session_id, user_message |-> inflight.user_message]
        /\ UNCHANGED <<crisis, prompts, crisis_file, issued, appVars, dbVars, assignVars, trackerVars, pmVars>>

InitTimeout == \E cfg \in BotConfigs : InitWith(cfg, MaxCap)

NextTimeout ==
    \/ \E b \in BotTypes : CreateNewSession("s1", "P1", b)
    \/ \E m \in BotInputs, x \in BOOLEAN :
           StartTurn("s1", m, x) /\ HistoryWithin("s1", MaxBotTurns - 1)
    \/ GiveUp
    \/ \E c \in Completions : CompleteCall(c)

SpecTimeout == InitTimeout /\ [][NextTimeout]_vars

(***************************************************************************)
(* The command-line tester (scripts/agent_cli.py): one session, the bot    *)
(* type forced when --bot is given, one message.                           *)
(***************************************************************************)
\* agent_cli.py:51
BOT_CHOICES == <<"emotional", "cognitive", "motivational", "control">>

Alphabet == {"h", "K", "e", " "}
\* the values of --message
CliMessages == UNION {[1..n -> Alphabet] : n \in 0..MaxTextLen}

CliConfigs ==
    { [crisis |-> NoDetector,            prompts |-> PromptsAll,        crisis_file |-> EmptyText],
      [crisis |-> Detector1,             prompts |-> PromptsAll,        crisis_file |-> FileSafetyText],
      [crisis |-> Detector2,             prompts |-> PromptsMissingOne, crisis_file |-> EmptyText],
      [crisis |-> DetectorNoKeywords,    prompts |-> PromptsAll,        crisis_file |-> FileSafetyText],
      [crisis |-> DetectorEmptyResponse, prompts |-> PromptsAll,        crisis_file |-> FileSafetyText],
      [crisis |-> DetectorBroken,        prompts |-> PromptsAll,        crisis_file |-> EmptyText] }

\* agent_cli.py:96-97
ForceBotType(session_id, bot) ==
    /\ session_id \in DOMAIN sessions
    /\ sessions' = [sessions EXCEPT ![session_id].bot_type = bot]
    /\ op' = [name |-> "force_bot_type", session_id |-> session_id, user_message |-> NoneText]
    /\ result' = NoResult
    /\ api' = NoApi
    /\ UNCHANGED <<crisis, prompts, crisis_file, inflight, issued, appVars, dbVars, assignVars, trackerVars, pmVars>>

InitCli == \E cfg \in CliConfigs : InitWith(cfg, MaxCap)

NextCli ==
    \/ op.name = "init" /\ \E b \in BotTypes : CreateNewSession("s1", "P1", b)
    \/ /\ op.name = "create_new_session"
       /\ \E i \in 1..Len(BOT_CHOICES) : ForceBotType("s1", BOT_CHOICES[i])
    \/ /\ op.name \in {"create_new_session", "force_bot_type"}
       /\ \E m \in CliMessages, x \in BOOLEAN, c \in Completions : GetBotResponse("s1", m, x, c)

SpecCli == InitCli /\ [][NextCli]_vars

(***************************************************************************)
(* Persistence collaborator.  db_manager.py is not among the sources; its  *)
(* operations are modelled from section 6 of the specification.            *)
(***************************************************************************)
create_participant(ps, participant_id, bot_type) ==
    Append(ps, [id |-> participant_id, bot_type |-> bot_type, completed |-> FALSE])

save_message(ms, participant_id, message_num, sender, content, contains_crisis_keyword) ==
    Append(ms, [participant_id |-> participant_id, message_num |-> message_num,
                sender |-> sender, content |-> content,
                contains_crisis_keyword |-> contains_crisis_keyword])

mark_participant_completed(ps, participant_id) ==
    [i \in 1..Len(ps) |->
        IF ps[i].id = participant_id THEN [ps[i] EXCEPT !.completed = TRUE] ELSE ps[i]]

update_participant_completion(ps, participant_id, completed) ==
    [i \in 1..Len(ps) |->
        IF ps[i].id = participant_id THEN [ps[i] EXCEPT !.completed = completed] ELSE ps[i]]

create_crisis_flag(fs, participant_id, message_id, keyword_detected) ==
    Append(fs, [participant_id |-> participant_id, message_id |-> message_id,
                keyword_detected |-> keyword_detected, reviewed |-> FALSE])

(***************************************************************************)
(* The participant flow: one action per run of main() (src/src/app.py).    *)
(* Every run constructs its own BotManager (app.py:77, 61), so the         *)
(* registry a run works on starts empty.                                   *)
(***************************************************************************)
\* app.py:160-177
Rehydrate(reg, s) ==
    IF s.session_id # "" /\ s.session_id \notin DOMAIN reg
    THEN (s.session_id :>
            [participant_id |-> s.participant_id, bot_type |-> s.bot_type,
             history |-> SelectSeq(LastN(s.messages, HistoryWindow),
                                   LAMBDA m : m.role \in {"user", "assistant"})]) @@ reg
    ELSE reg

\* a boundary check that lets the turn at the cap through
AtCapStrict(current_message_num, cap) == current_message_num > cap

\* app.py:180, 194
AtCap(current_message_num, cap) == current_message_num >= cap

\* a counter bumped once for the user message and once for the reply
NextMessageNumTwice(current_message_num) == current_message_num + 2

\* app.py:199
NextMessageNum(current_message_num) == current_message_num + 1

\* a flag that names no keyword
FlagKeywordGeneric(detected_keyword) == <<"crisis">>

\* app.py:247
FlagKeyword(detected_keyword) ==
    IF detected_keyword \in {NoneText, EmptyText} THEN <<"crisis">> ELSE detected_keyword

InActiveStage ==
    /\ ~st.show_welcome
    /\ ~st.conversation_complete
    /\ st.conversation_active

\* a consent that stores the session and stays on the welcome page
ConsentStateKeepsWelcome(s, session_id, participant_id, bot_type) ==
    [s EXCEPT !.session_id = session_id, !.participant_id = participant_id,
              !.bot_type = bot_type, !.conversation_active = TRUE, !.messages = <<>>,
              !.current_message_num = 0]

\* app.py:94-101
ConsentState(s, session_id, participant_id, bot_type) ==
    [s EXCEPT !.session_id = session_id, !.participant_id = participant_id,
              !.bot_type = bot_type, !.show_welcome = FALSE,
              !.conversation_active = TRUE, !.messages = <<>>,
              !.current_message_num = 0]

\* app.py:86-112, consent given: display_welcome_page() returned True
WelcomeConsent(session_id, participant_id, bot_type) ==
    /\ st.show_welcome
    /\ session_id \notin issued
    /\ sessions' = create_new_session(EmptyRegistry, session_id, participant_id, bot_type)
    /\ issued' = issued \cup {session_id}
    /\ st' = ConsentState(st, session_id, participant_id, bot_type)
    /\ live' = [sessions |-> create_new_session(EmptyRegistry, session_id, participant_id, bot_type),
                api |-> NoApi]
    /\ participants' = create_participant(participants, participant_id, bot_type)
    /\ op' = [name |-> "welcome", session_id |-> session_id, user_message |-> NoneText]
    /\ result' = NoResult
    /\ api' = NoApi
    /\ UNCHANGED <<crisis, prompts, crisis_file, inflight, max_messages, db_messages, crisis_flags, assignVars, trackerVars, pmVars>>

\* a completion run that drops the session without marking the participant
CompleteAtCapUnmarked ==
    /\ InActiveStage
    /\ AtCap(st.current_message_num, max_messages)
    /\ st' = [st EXCEPT !.conversation_active = FALSE, !.conversation_complete = TRUE]
    /\ sessions' = end_session(Rehydrate(EmptyRegistry, st), st.session_id)
    /\ live' = [sessions |-> end_session(live.sessions, st.session_id), api |-> NoApi]
    /\ op' = [name |-> "complete", session_id |-> st.session_id, user_message |-> NoneText]
    /\ result' = NoResult
    /\ api' = NoApi
    /\ UNCHANGED <<crisis, prompts, crisis_file, inflight, issued, max_messages, dbVars, assignVars, trackerVars, pmVars>>

\* app.py:120-191, the run that finds the counter at the cap
CompleteAtCap ==
    /\ InActiveStage
    /\ AtCap(st.current_message_num, max_messages)
    /\ st' = [st EXCEPT !.conversation_active = FALSE, !.conversation_complete = TRUE]
    /\ participants' = mark_participant_completed(participants, st.participant_id)
    /\ sessions' = end_session(Rehydrate(EmptyRegistry, st), st.session_id)
    /\ live' = [sessions |-> end_session(live.sessions, st.session_id), api |-> NoApi]
    /\ op' = [name |-> "complete", session_id |-> st.session_id, user_message |-> NoneText]
    /\ result' = NoResult
    /\ api' = NoApi
    /\ UNCHANGED <<crisis, prompts, crisis_file, inflight, issued, max_messages, db_messages, crisis_flags, assignVars, trackerVars, pmVars>>

\* app.py:120-195, a run below the cap with no input
IdleRun ==
    /\ InActiveStage
    /\ ~AtCap(st.current_message_num, max_messages)
    /\ sessions' = Rehydrate(EmptyRegistry, st)
    /\ op' = [name |-> "rerun", session_id |-> st.session_id, user_message |-> NoneText]
    /\ result' = NoResult
    /\ api' = NoApi
    /\ UNCHANGED <<crisis, prompts, crisis_file, inflight, issued, appVars, dbVars, assignVars, trackerVars, pmVars>>

\* app.py:120-265, a run below the cap with input
UserTurn(user_input, check_raises, completion) ==
    /\ InActiveStage
    /\ ~AtCap(st.current_message_num, max_messages)
    /\ user_input # EmptyText
    /\ LET message_num == NextMessageNum(st.current_message_num)
           shown == Append(st.messages, Msg("user", user_input))
           saved == save_message(db_messages, st.participant_id, message_num, "user", user_input, FALSE)
           r == get_bot_response(Rehydrate(EmptyRegistry, st), crisis, prompts, crisis_file, st.session_id, user_input, check_raises, completion)
           kept == get_bot_response(live.sessions, crisis, prompts, crisis_file, st.session_id, user_input, check_raises, completion)
           answered == r.result.kind = "return"
           saved_bot == save_message(saved, st.participant_id, message_num, "bot", r.result.bot_response, r.result.crisis_detected)
       IN  /\ sessions' = r.sessions
           /\ result' = r.result
           /\ api' = r.api
           /\ live' = [sessions |-> kept.sessions, api |-> kept.api]
           /\ st' = [st EXCEPT !.current_message_num = message_num,
                               !.messages = IF answered
                                            THEN Append(shown, Msg("assistant", r.result.bot_response))
                                            ELSE shown]
           /\ db_messages' = IF answered THEN saved_bot ELSE saved
           /\ crisis_flags' =
                 IF answered /\ r.result.crisis_detected
                 THEN create_crisis_flag(crisis_flags, st.participant_id, Len(saved_bot), FlagKeyword(r.result.detected_keyword))
                 ELSE crisis_flags
    /\ op' = [name |-> "user_turn", session_id |-> st.session_id, user_message |-> user_input]
    /\ UNCHANGED <<crisis, prompts, crisis_file, inflight, issued, max_messages, participants, assignVars, trackerVars, pmVars>>

AppInputs == {Clear1, Crisis1}

InitApp == \E cfg \in BotConfigs, cap \in 1..MaxCap : InitWith(cfg, cap)

NextApp ==
    \/ \E b \in BotTypes :
           WelcomeConsent(SessionIdPool[Cardinality(issued) + 1],
                          ParticipantIdPool[Cardinality(issued) + 1], b)
    \/ CompleteAtCap
    \/ IdleRun
    \/ \E m \in AppInputs, x \in BOOLEAN, c \in Completions : UserTurn(m, x, c)

SpecApp == InitApp /\ [][NextApp]_vars

(***************************************************************************)
(* One session driven through many clear turns, so that its history        *)
(* outgrows the window of bot_manager.py:128.                              *)
(***************************************************************************)
PayloadConfigs ==
    { [crisis |-> DetectorBroken, prompts |-> PromptsMissingOne, crisis_file |-> EmptyText],
      [crisis |-> Detector1,      prompts |-> PromptsAll,        crisis_file |-> FileSafetyText] }

PayloadInputs == {Clear1, Clear2, Crisis1}

InitPayload == \E cfg \in PayloadConfigs : InitWith(cfg, MaxCap)

NextPayload ==
    \/ \E b \in BotTypes : CreateNewSession("s1", "P1", b)
    \/ \E m \in PayloadInputs :
           GetBotResponse("s1", m, FALSE, ApiOk) /\ HistoryWithin("s1", MaxPayloadTurns)'

SpecPayload == InitPayload /\ [][NextPayload]_vars

(***************************************************************************)
(* RandomAssignment (src/src/utils/random_assignment.py) and the caller    *)
(* that persists the participant (ParticipantManager.create_session).      *)
(***************************************************************************)
\* random_assignment.py:25
ra_bot_types == <<"emotional", "cognitive", "motivational", "neutral">>

ParticipantNames == <<"P001", "P002", "P003", "P004", "P005", "P006", "P007", "P008", "P009", "P010">>

\* db_manager.get_statistics(): the counts derived from the persisted participants
total_participants(ps) == Len(ps)

bot_distribution(ps) ==
    [b \in BotTypes \cup {ps[i].bot_type : i \in 1..Len(ps)} |->
        Cardinality({i \in 1..Len(ps) : ps[i].bot_type = b})]

Spread(distribution) ==
    LET counts == {distribution[b] : b \in DOMAIN distribution}
    IN  MaxOf(counts) - MinOf(counts)

\* random_assignment.py:97: what random.choice may return
_assign_random(ps) == {ra_bot_types[i] : i \in 1..Len(ra_bot_types)}

\* min() of an empty sequence (random_assignment.py:76)
ValueError == "<ValueError>"

\* random_assignment.py:76-82 on the distribution get_bot_distribution returned:
\* what random.choice may return, or the error min() raises
EqualDistributionChoice(distribution) ==
    IF DOMAIN distribution = {}
    THEN {ValueError}
    ELSE LET min_count == MinOf({distribution[b] : b \in DOMAIN distribution})
         IN  {b \in DOMAIN distribution : distribution[b] = min_count}

\* a choice among all bot types, whatever their counts
_assign_equal_distribution_unbalanced(ps) == DOMAIN bot_distribution(ps)

\* random_assignment.py:72-87: what random.choice may return
_assign_equal_distribution(ps) == EqualDistributionChoice(bot_distribution(ps))

\* random_assignment.py:110-119
_assign_sequential(ps) ==
    {ra_bot_types[(total_participants(ps) % Len(ra_bot_types)) + 1]}

\* random_assignment.py:52-60
assign_bot_type(method, ps) ==
    CASE method = "equal_distribution" -> _assign_equal_distribution(ps)
      [] method = "random" -> _assign_random(ps)
      [] method = "sequential" -> _assign_sequential(ps)
      [] OTHER -> _assign_equal_distribution(ps)

\* participant_manager.py:41-47
generate_participant_id(ps) == ParticipantNames[total_participants(ps) + 1]

\* an assignment that also writes the participant it chose a bot type for
AssignBotTypeAndPersist(caller, method) ==
    /\ assigned[caller] = ""
    /\ \E b \in assign_bot_type(method, participants) :
           /\ assigned' = [assigned EXCEPT ![caller] = b]
           /\ participants' =
                 create_participant(participants, generate_participant_id(participants), b)
    /\ seen' = [seen EXCEPT ![caller] =
                   [read |-> TRUE, distribution |-> bot_distribution(participants)]]
    /\ UNCHANGED <<botVars, appVars, db_messages, crisis_flags, trackerVars, pmVars>>

\* random_assignment.py:39-60: assign_bot_type run by a caller
AssignBotType(caller, method) ==
    /\ assigned[caller] = ""
    /\ \E b \in assign_bot_type(method, participants) :
           assigned' = [assigned EXCEPT ![caller] = b]
    /\ seen' = [seen EXCEPT ![caller] =
                   [read |-> TRUE, distribution |-> bot_distribution(participants)]]
    /\ UNCHANGED <<botVars, appVars, dbVars, trackerVars, pmVars>>

\* participant_manager.py:50-58: uuid4 gives an id that was not given before
generate_session_id(given) ==
    SessionIdPool[MinOf({i \in 1..Len(SessionIdPool) : SessionIdPool[i] \notin given})]

\* participant_manager.py:80-90
StoreActiveSession(active, session_id, participant_id, bot_type) ==
    (session_id :> [participant_id |-> participant_id, bot_type |-> bot_type,
                    message_count |-> 0, conversation_complete |-> FALSE]) @@ active

\* participant_manager.py:61-94, run without interruption
CreateSession(caller) ==
    /\ assigned[caller] # ""
    /\ pending[caller] = ""
    /\ LET participant_id == generate_participant_id(participants)
           session_id == generate_session_id(issued)
       IN  /\ participants' = create_participant(participants, participant_id, assigned[caller])
           /\ active_sessions' =
                 StoreActiveSession(active_sessions, session_id, participant_id, assigned[caller])
           /\ issued' = issued \cup {session_id}
    /\ assigned' = [assigned EXCEPT ![caller] = ""]
    /\ seen' = [seen EXCEPT ![caller] = NotRead]
    /\ UNCHANGED <<sessions, crisis, prompts, crisis_file, inflight, op, result, api, appVars,
                   db_messages, crisis_flags, trackerVars, pending>>

InitBalancer == InitWith(CHOOSE cfg \in BotConfigs : ~cfg.crisis.present, MaxCap)

NextBalancer ==
    \/ Len(participants) < MaxParticipants /\ AssignBotType("c1", "equal_distribution")
    \/ CreateSession("c1")

SpecBalancer == InitBalancer /\ [][NextBalancer]_vars

(***************************************************************************)
(* Two callers running assign_bot_type and create_session at the same      *)
(* time: create_session is interrupted between its read of the participant *)
(* count (participant_manager.py:73) and its writes (77-90).               *)
(***************************************************************************)
\* participant_manager.py:73, 41-47
GenerateParticipantId(caller) ==
    /\ assigned[caller] # ""
    /\ pending[caller] = ""
    /\ pending' = [pending EXCEPT ![caller] = generate_participant_id(participants)]
    /\ UNCHANGED <<botVars, appVars, dbVars, assignVars, trackerVars, active_sessions>>

\* participant_manager.py:74-94
StoreSession(caller) ==
    /\ pending[caller] # ""
    /\ LET session_id == generate_session_id(issued)
       IN  /\ participants' = create_participant(participants, pending[caller], assigned[caller])
           /\ active_sessions' =
                 StoreActiveSession(active_sessions, session_id, pending[caller], assigned[caller])
           /\ issued' = issued \cup {session_id}
    /\ assigned' = [assigned EXCEPT ![caller] = ""]
    /\ seen' = [seen EXCEPT ![caller] = NotRead]
    /\ pending' = [pending EXCEPT ![caller] = ""]
    /\ UNCHANGED <<sessions, crisis, prompts, crisis_file, inflight, op, result, api, appVars,
                   db_messages, crisis_flags, trackerVars>>

InitConcurrent == InitWith(CHOOSE cfg \in BotConfigs : ~cfg.crisis.present, MaxCap)

NextConcurrent ==
    \E caller \in Callers :
        \/ /\ Len(participants) < MaxConcurrent
           /\ AssignBotType(caller, "equal_distribution")
        \/ GenerateParticipantId(caller)
        \/ StoreSession(caller)

SpecConcurrent == InitConcurrent /\ [][NextConcurrent]_vars

\* random_assignment.py:52-60: the strategy names, and one assign_bot_type does not know
Methods == {"equal_distribution", "random", "sequential", "round_robin"}

InitStrategies == InitWith(CHOOSE cfg \in BotConfigs : ~cfg.crisis.present, MaxCap)

NextStrategies ==
    \/ Len(participants) < MaxAssignments /\ \E m \in Methods : AssignBotType("c1", m)
    \/ CreateSession("c1")

SpecStrategies == InitStrategies /\ [][NextStrategies]_vars

(***************************************************************************)
(* The sequential strategy alone, each assignment persisted before the     *)
(* next one is made, in any configuration of the application.              *)
(***************************************************************************)
InitSequential == \E cfg \in BotConfigs, cap \in 1..MaxCap : InitWith(cfg, cap)

NextSequential ==
    \/ Len(participants) < MaxParticipants /\ AssignBotType("c1", "sequential")
    \/ CreateSession("c1")

SpecSequential == InitSequential /\ [][NextSequential]_vars

(***************************************************************************)
(* _assign_equal_distribution on whatever mapping get_bot_distribution     *)
(* hands it: db_manager.get_statistics() may list every bot type, some of  *)
(* them, or none.                                                          *)
(***************************************************************************)
Distributions == UNION {[S -> 0..MaxCount] : S \in SUBSET BotTypes}

\* random_assignment.py:72-87 with get_bot_distribution returning distribution
AssignFromDistribution(caller, distribution) ==
    /\ assigned[caller] = ""
    /\ \E b \in EqualDistributionChoice(distribution) :
           assigned' = [assigned EXCEPT ![caller] = b]
    /\ seen' = [seen EXCEPT ![caller] = [read |-> TRUE, distribution |-> distribution]]
    /\ UNCHANGED <<botVars, appVars, dbVars, trackerVars, pmVars>>

\* the caller takes what assign_bot_type gave it
TakeAssignment(caller) ==
    /\ assigned[caller] # ""
    /\ assigned' = [assigned EXCEPT ![caller] = ""]
    /\ seen' = [seen EXCEPT ![caller] = NotRead]
    /\ UNCHANGED <<botVars, appVars, dbVars, trackerVars, pmVars>>

InitDistribution == InitWith(CHOOSE cfg \in BotConfigs : ~cfg.crisis.present, MaxCap)

NextDistribution ==
    \/ \E distribution \in Distributions : AssignFromDistribution("c1", distribution)
    \/ TakeAssignment("c1")

SpecDistribution == InitDistribution /\ [][NextDistribution]_vars

(***************************************************************************)
(* ParticipantManager's active sessions from creation to removal           *)
(* (participant_manager.py:121-196): sessions are created one after the    *)
(* other, marked complete or not, and ended one by one or by the cleanup   *)
(* of stale sessions.                                                      *)
(***************************************************************************)
\* participant_manager.py:128-134: the session after mark_session_complete
mark_session_complete(active, session_id) ==
    [active EXCEPT ![session_id].conversation_complete = TRUE]

\* an end_session that writes every ended session as completed
pm_end_session_completed(active, ps, session_id) ==
    IF session_id \in DOMAIN active
    THEN [active |-> [s \in DOMAIN active \ {session_id} |-> active[s]],
          participants |-> update_participant_completion(ps, active[session_id].participant_id, TRUE)]
    ELSE [active |-> active, participants |-> ps]

\* participant_manager.py:147-158: the active sessions and the participants after end_session
pm_end_session(active, ps, session_id) ==
    IF session_id \in DOMAIN active
    THEN [active |-> [s \in DOMAIN active \ {session_id} |-> active[s]],
          participants |->
              update_participant_completion(ps, active[session_id].participant_id,
                                            active[session_id].conversation_complete)]
    ELSE [active |-> active, participants |-> ps]

\* participant_manager.py:191-192: end_session for each stale session
RECURSIVE cleanup_stale_sessions(_, _, _)
cleanup_stale_sessions(active, ps, stale) ==
    IF stale = {}
    THEN [active |-> active, participants |-> ps]
    ELSE LET session_id == CHOOSE s \in stale : TRUE
             ended == pm_end_session(active, ps, session_id)
         IN  cleanup_stale_sessions(ended.active, ended.participants, stale \ {session_id})

\* participant_manager.py:121-136
MarkSessionComplete(session_id) ==
    /\ session_id \in DOMAIN active_sessions
    /\ active_sessions' = mark_session_complete(active_sessions, session_id)
    /\ participants' =
          update_participant_completion(participants, active_sessions[session_id].participant_id, TRUE)
    /\ UNCHANGED <<botVars, appVars, db_messages, crisis_flags, assignVars, trackerVars, pending>>

\* participant_manager.py:139-160
EndActiveSession(session_id) ==
    /\ active_sessions' = pm_end_session(active_sessions, participants, session_id).active
    /\ participants' = pm_end_session(active_sessions, participants, session_id).participants
    /\ UNCHANGED <<botVars, appVars, db_messages, crisis_flags, assignVars, trackerVars, pending>>

\* participant_manager.py:173-196, with `stale` the sessions older than the timeout
CleanupStaleSessions(stale) ==
    /\ active_sessions' = cleanup_stale_sessions(active_sessions, participants, stale).active
    /\ participants' = cleanup_stale_sessions(active_sessions, participants, stale).participants
    /\ UNCHANGED <<botVars, appVars, db_messages, crisis_flags, assignVars, trackerVars, pending>>

InitSessions == InitWith(CHOOSE cfg \in BotConfigs : ~cfg.crisis.present, MaxCap)

NextSessions ==
    \/ Len(participants) < MaxSignups /\ AssignBotType("c1", "equal_distribution")
    \/ CreateSession("c1")
    \/ \E s \in issued : MarkSessionComplete(s)
    \/ \E s \in issued : EndActiveSession(s)
    \/ \E stale \in SUBSET DOMAIN active_sessions : CleanupStaleSessions(stale)

SpecSessions == InitSessions /\ [][NextSessions]_vars

(***************************************************************************)
(* ConversationHandler (src/src/chatbot/conversation_handler.py), the      *)
(* lifecycle tracker, under any sequence of calls.                         *)
(***************************************************************************)
\* conversation_handler.py:42-54
start_conversation(convs, cap, session_id, participant_id, bot_type) ==
    (session_id :>
        [participant_id |-> participant_id, bot_type |-> bot_type,
         current_message_num |-> 0, max_messages |-> cap, is_active |-> TRUE,
         is_complete |-> FALSE, ended |-> FALSE, end_reason |-> "", messages |-> <<>>]) @@ convs

\* an add_message that leaves the flags alone at the cap
add_message_without_flags(convs, cap, session_id, sender, content) ==
    [convs EXCEPT ![session_id] =
        [@ EXCEPT !.messages = Append(@, [sender |-> sender, content |-> content]),
                  !.current_message_num = IF sender = "user" THEN @ + 1 ELSE @]]

\* an add_message that counts every entry, whoever sent it
add_message_counts_all(convs, cap, session_id, sender, content) ==
    [convs EXCEPT ![session_id] =
        [@ EXCEPT !.messages = Append(@, [sender |-> sender, content |-> content]),
                  !.current_message_num = @ + 1,
                  !.is_active = IF convs[session_id].current_message_num + 1 >= cap THEN FALSE ELSE @,
                  !.is_complete = IF convs[session_id].current_message_num + 1 >= cap THEN TRUE ELSE @]]

\* conversation_handler.py:75-96, for a session the tracker knows
add_message(convs, cap, session_id, sender, content) ==
    LET conversation == convs[session_id]
        num == IF sender = "user"
               THEN conversation.current_message_num + 1
               ELSE conversation.current_message_num
        at_cap == num >= cap
    IN  [convs EXCEPT ![session_id] =
            [conversation EXCEPT
                !.messages = Append(@, [sender |-> sender, content |-> content]),
                !.current_message_num = num,
                !.is_active = IF at_cap THEN FALSE ELSE @,
                !.is_complete = IF at_cap THEN TRUE ELSE @]]

\* an end_conversation that marks every ended conversation complete
end_conversation_completes(convs, session_id, reason) ==
    [convs EXCEPT ![session_id] =
        [@ EXCEPT !.is_active = FALSE, !.ended = TRUE, !.end_reason = reason,
                  !.is_complete = TRUE]]

\* conversation_handler.py:203-211, for a session the tracker knows
end_conversation(convs, session_id, reason) ==
    LET conversation == convs[session_id]
    IN  [convs EXCEPT ![session_id] =
            [conversation EXCEPT
                !.is_active = FALSE,
                !.ended = TRUE,
                !.end_reason = reason,
                !.is_complete =
                    IF conversation.current_message_num >= conversation.max_messages
                    THEN TRUE ELSE @]]

\* conversation_handler.py:264-265
cleanup_conversation(convs, session_id) ==
    [s \in DOMAIN convs \ {session_id} |-> convs[s]]

\* conversation_handler.py:122-126
is_conversation_active(convs, session_id) ==
    IF session_id \notin DOMAIN convs THEN FALSE ELSE convs[session_id].is_active

\* a should_end_conversation that looks at the counter only
should_end_conversation_by_cap(convs, session_id) ==
    IF session_id \notin DOMAIN convs
    THEN TRUE
    ELSE convs[session_id].current_message_num >= convs[session_id].max_messages

\* conversation_handler.py:180-192
should_end_conversation(convs, session_id) ==
    IF session_id \notin DOMAIN convs
    THEN TRUE
    ELSE IF convs[session_id].current_message_num >= convs[session_id].max_messages
         THEN TRUE
         ELSE IF ~convs[session_id].is_active THEN TRUE ELSE FALSE

\* conversation_handler.py:287-296
get_statistics(convs) ==
    LET total == Cardinality(DOMAIN convs)
        active == Cardinality({s \in DOMAIN convs : convs[s].is_active})
        complete == Cardinality({s \in DOMAIN convs : convs[s].is_complete})
    IN  [total_conversations |-> total, active_conversations |-> active,
         completed_conversations |-> complete, incomplete_conversations |-> total - complete]

TrackerOp(name, session_id, content) ==
    /\ op' = [name |-> name, session_id |-> session_id, user_message |-> content]
    /\ api' = NoApi
    /\ UNCHANGED <<sessions, crisis, prompts, crisis_file, inflight, issued, appVars, dbVars, assignVars, pmVars>>

StartConversation(session_id, participant_id, bot_type) ==
    /\ conversations' =
          start_conversation(conversations, max_messages, session_id, participant_id, bot_type)
    /\ result' = NoResult
    /\ TrackerOp("start_conversation", session_id, NoneText)

\* conversation_handler.py:60-96
AddMessage(session_id, sender, content) ==
    /\ IF session_id \in DOMAIN conversations
       THEN /\ conversations' = add_message(conversations, max_messages, session_id, sender, content)
            /\ result' = NoResult
       ELSE /\ conversations' = conversations
            /\ result' = [NoResult EXCEPT !.kind = "raise"]
    /\ TrackerOp("add_message", session_id, content)

\* conversation_handler.py:195-213
EndConversation(session_id, reason) ==
    /\ conversations' =
          IF session_id \in DOMAIN conversations
          THEN end_conversation(conversations, session_id, reason)
          ELSE conversations
    /\ result' = NoResult
    /\ TrackerOp("end_conversation", session_id, reason)

\* conversation_handler.py:257-266
CleanupConversation(session_id) ==
    /\ conversations' = cleanup_conversation(conversations, session_id)
    /\ result' = NoResult
    /\ TrackerOp("cleanup_conversation", session_id, NoneText)

Senders == {"user", "bot"}
EndReasons == {"completed", "user_left"}

\* the bound on a conversation's message log
LogWithin(session_id, entries) ==
    session_id \in DOMAIN conversations => Len(conversations[session_id].messages) <= entries

InitTracker ==
    \E cap \in 1..MaxCap : InitWith(CHOOSE cfg \in BotConfigs : ~cfg.crisis.present, cap)

NextTracker ==
    \/ \E s \in SessionIds : StartConversation(s, ParticipantOf[s], "emotional")
    \/ \E s \in SessionIds, sender \in Senders :
           AddMessage(s, sender, Clear1) /\ LogWithin(s, MaxTrackerLog)'
    \/ \E s \in SessionIds, reason \in EndReasons : EndConversation(s, reason)
    \/ \E s \in SessionIds : CleanupConversation(s)

SpecTracker == InitTracker /\ [][NextTracker]_vars

(***************************************************************************)
(* Visitors giving consent one after the other, each in a browser session  *)
(* of their own (app.py:86-112).                                           *)
(***************************************************************************)
\* a new browser session: st.session_state starts afresh
NewVisitor ==
    /\ ~st.show_welcome
    /\ st' = InitialSessionState
    /\ op' = [name |-> "visitor", session_id |-> "", user_message |-> NoneText]
    /\ UNCHANGED <<sessions, crisis, prompts, crisis_file, inflight, issued, result, api, max_messages, live, dbVars, assignVars, trackerVars, pmVars>>

InitSignup == InitWith(CHOOSE cfg \in BotConfigs : ~cfg.crisis.present, MaxCap)

NextSignup ==
    \/ /\ Len(participants) < MaxSignups
       /\ \E b \in BotTypes :
            WelcomeConsent(SessionIdPool[Len(participants) + 1], ParticipantIdPool[Len(participants) + 1], b)
    \/ NewVisitor

SpecSignup == InitSignup /\ [][NextSignup]_vars

(***************************************************************************)
(* Properties.                                                             *)
(***************************************************************************)
CountRole(messages, role) == Cardinality({i \in 1..Len(messages) : messages[i].role = role})

\* C1 (SpecBot): when get_bot_response runs on a live session and the crisis
\* policy reports a match for the message, the result is a normal return whose
\* reply is the safety text, with crisis_detected true and the keyword the
\* policy matched, and the completion collaborator was not invoked.
C1_CrisisShortCircuit ==
    (op.name = "get_bot_response" /\ op.session_id \in DOMAIN sessions /\ api.matched) =>
        /\ result.kind = "return"
        /\ result.bot_response = _crisis_text(crisis, crisis_file)
        /\ result.crisis_detected
        /\ result.detected_keyword = check_message(crisis, op.user_message).keyword
        /\ ~api.called

C1_Witness ==
    /\ op.name = "get_bot_response"
    /\ op.session_id \in DOMAIN sessions
    /\ api.matched
    /\ result.crisis_detected
    /\ result.detected_keyword = Keyword1
    /\ sessions[op.session_id].history # <<>>

IsSafetyReply(m) == m.role = "assistant" /\ m.content = _crisis_text(crisis, crisis_file)

\* the entries of a payload between the system message and the new user message
HistoryPart(messages) ==
    SubSeq(messages, IF messages[1].role = "system" THEN 2 ELSE 1, Len(messages) - 1)

\* C2 (SpecApp): no payload sent to the completion collaborator carries, in its
\* history part, a safety reply or the user message that the safety reply answered.
C2_CrisisNeverInPayload ==
    api.called =>
        LET h == HistoryPart(api.messages)
        IN  \A i \in 1..Len(h) :
                /\ ~IsSafetyReply(h[i])
                /\ ~(h[i].role = "user" /\ i < Len(h) /\ IsSafetyReply(h[i + 1]))

\* C3 (SpecApp): a turn on which the completion collaborator fails leaves the
\* message counter and the session's history as they were when the turn began.
C3_FailureIsolation ==
    [][(op'.name = "user_turn" /\ api'.failed) =>
          /\ st'.current_message_num = st.current_message_num
          /\ sessions'[st.session_id].history =
                 Rehydrate(EmptyRegistry, st)[st.session_id].history]_vars

\* C4 (SpecBot): when the completion call fails, get_bot_response ends in an
\* error for its caller, not in a normal result.
C4_CompletionFailureSurfaced ==
    (op.name = "get_bot_response" /\ api.called /\ api.failed) => result.kind = "raise"

\* C5 (SpecBalancer): under serialized assign-then-persist steps from an all-zero
\* distribution, the largest and the smallest per-variant count differ by at most 1.
C5_BalancedAssignment == Spread(bot_distribution(participants)) <= 1

C5_Witness ==
    /\ Len(participants) = 6
    /\ participants[1].bot_type = participants[6].bot_type
    /\ assigned["c1"] = ""

\* C6 (SpecSignup): every consent step persists a participant whose variant had a
\* minimal persisted count, so the per-variant counts never differ by more than 1.
C6_CreateSessionBalanced ==
    [][Len(participants') > Len(participants) =>
          /\ participants'[Len(participants')].bot_type \in _assign_equal_distribution(participants)
          /\ Spread(bot_distribution(participants')) <= 1]_vars

\* C7 (SpecApp): the message counter never decreases; a user turn raises it by
\* exactly 1, crisis or not; no other step changes it; it counts the user
\* messages shown, not the assistant's.
C7_MessageNumPerUserTurn ==
    [][/\ st'.current_message_num >= st.current_message_num
       /\ op'.name = "user_turn" => st'.current_message_num = st.current_message_num + 1
       /\ op'.name # "user_turn" => st'.current_message_num = st.current_message_num
       /\ st'.current_message_num = CountRole(st'.messages, "user")]_vars

C7_Witness ==
    /\ op.name = "user_turn"
    /\ result.crisis_detected
    /\ st.current_message_num = 2
    /\ Len(st.messages) = 4
    /\ st.messages[2] = Msg("assistant", <<"o", "k">>)

\* C8 (SpecApp): a run that finds the counter at the cap marks the conversation
\* complete and takes no turn: nothing is saved, the counter stays, and neither
\* get_bot_response nor the completion collaborator runs; once complete, nothing
\* changes any more.
C8_SessionCap ==
    [][/\ (InActiveStage /\ st.current_message_num >= max_messages) =>
             /\ st'.conversation_complete
             /\ ~st'.conversation_active
             /\ st'.current_message_num = st.current_message_num
             /\ st'.messages = st.messages
             /\ db_messages' = db_messages
             /\ crisis_flags' = crisis_flags
             /\ result'.kind = "none"
             /\ ~api'.called
       /\ st.conversation_complete => UNCHANGED <<st, dbVars>>
       /\ st'.current_message_num <= max_messages]_vars

C8_Witness ==
    /\ st.conversation_complete
    /\ max_messages >= 2
    /\ st.current_message_num = max_messages
    /\ participants[1].completed

\* C9 (SpecBot): get_bot_response on a session id that is not in the registry
\* raises, asks neither the crisis policy nor the completion collaborator, and
\* leaves the registry as it was.
C9_UnknownSession ==
    [][(op'.name = "get_bot_response" /\ op'.session_id \notin DOMAIN sessions) =>
          /\ result'.kind = "raise"
          /\ ~api'.checked
          /\ ~api'.called
          /\ sessions' = sessions]_vars

C9_Witness ==
    /\ op.name = "get_bot_response"
    /\ result.kind = "raise"
    /\ op.session_id \notin DOMAIN sessions
    /\ sessions # EmptyRegistry

\* C10 (SpecPayload): on a clear turn the payload is the system message of the
\* session's variant if and only if its prompt is not empty, then the last 20
\* entries of the history before the turn in their order (all when fewer), then
\* the new user message; at most 22 entries, no system message for control.
C10_PayloadShape ==
    (op.name = "get_bot_response" /\ api.called) =>
        LET sess == sessions[op.session_id]
            before == SubSeq(sess.history, 1, Len(sess.history) - 2)
            k == IF Len(before) < 20 THEN Len(before) ELSE 20
            prompt == prompts[sess.bot_type]
            head == IF prompt = <<>> THEN <<>> ELSE <<[role |-> "system", content |-> prompt]>>
        IN  /\ api.messages =
                  head \o [i \in 1..k |-> before[Len(before) - k + i]]
                       \o <<[role |-> "user", content |-> op.user_message]>>
            /\ Len(api.messages) <= 22
            /\ sess.bot_type = "control" => api.messages[1].role # "system"

C10_Witness ==
    /\ op.name = "get_bot_response"
    /\ api.called
    /\ Len(sessions["s1"].history) = 24
    /\ Len(api.messages) = 22
    /\ api.messages[1].role = "system"
    /\ api.messages[2] # sessions["s1"].history[1]

\* C11 (SpecApp): on every user turn the manager rebuilt from the displayed
\* messages calls the completion collaborator exactly when a manager kept alive
\* through the same turns calls it, and with the same payload.
C11_RehydrationRoundTrip ==
    op.name = "user_turn" =>
        /\ api.called = live.api.called
        /\ api.messages = live.api.messages

\* a keyword occurs in a text, letter case apart
Occurs(k, t) ==
    \E i \in 1..Len(t) :
        /\ i + Len(k) - 1 <= Len(t)
        /\ \A j \in 1..Len(k) : Lower(t[i + j - 1]) = Lower(k[j])

IsBlank(t) == \A i \in 1..Len(t) : t[i] = " "

\* C12 (SpecCli): when the crisis policy is asked about a message and answers,
\* the turn is a crisis turn exactly when the message is not blank and some
\* configured keyword occurs in it as a case-insensitive substring, and the
\* keyword reported is then the first such keyword in configuration order;
\* otherwise no crisis and no keyword are reported.
C12_CrisisMatching ==
    (op.name = "get_bot_response" /\ api.checked /\ ~api.raised) =>
        LET t == op.user_message
            ks == crisis.keywords
            found == {i \in 1..Len(ks) : Occurs(ks[i], t)}
        IN  IF IsBlank(t) \/ found = {}
            THEN /\ ~result.crisis_detected
                 /\ result.detected_keyword = NoneText
                 /\ ~api.matched
            ELSE /\ result.crisis_detected
                 /\ api.matched
                 /\ \E i \in found :
                       /\ result.detected_keyword = ks[i]
                       /\ \A j \in found : i <= j

C12_Witness ==
    /\ op.name = "get_bot_response"
    /\ crisis = Detector2
    /\ op.user_message = <<"h", "e", "K">>
    /\ result.crisis_detected
    /\ result.detected_keyword = Keyword3

\* C13 (SpecBot): when get_bot_response runs on a live session and the manager
\* has no detector (none importable, or its construction failed) or the
\* detector raised on the message, the call returns normally with no crisis
\* reported, the completion collaborator was called with a payload ending in
\* the user message, and the history ends with the user message and the reply.
C13_DetectionDegrades ==
    (/\ op.name = "get_bot_response"
     /\ op.session_id \in DOMAIN sessions
     /\ (~crisis.present \/ api.raised)) =>
        LET h == sessions[op.session_id].history
        IN  /\ result.kind = "return"
            /\ ~result.crisis_detected
            /\ result.detected_keyword = NoneText
            /\ api.called
            /\ api.messages[Len(api.messages)] = Msg("user", op.user_message)
            /\ Len(h) >= 2
            /\ h[Len(h) - 1] = Msg("user", op.user_message)
            /\ h[Len(h)] = Msg("assistant", result.bot_response)

C13_Witness ==
    /\ op.name = "get_bot_response"
    /\ op.session_id \in DOMAIN sessions
    /\ crisis.present
    /\ api.raised
    /\ op.user_message = Crisis1
    /\ api.called
    /\ sessions[op.session_id].history = <<Msg("user", Crisis1), Msg("assistant", <<"o", "k">>)>>

\* C14 (SpecCli): the reply of a crisis short-circuit is never the empty text.
C14_SafetyReplyNotEmpty ==
    (op.name = "get_bot_response" /\ result.crisis_detected) =>
        /\ result.bot_response # EmptyText
        /\ result.bot_response # NoneText

\* C15 (SpecCli): no step changes the bot type stored for a session id that is
\* in the registry before and after the step.
C15_VariantImmutable ==
    [][\A s \in DOMAIN sessions \cap DOMAIN sessions' :
          sessions'[s].bot_type = sessions[s].bot_type]_vars

\* C16 (SpecStrategies): every bot type an assignment strategy returns, and
\* every bot type persisted for a participant, is one of emotional, cognitive,
\* motivational, control.
C16_VariantInFixedSet ==
    /\ \A c \in Callers : assigned[c] # "" => assigned[c] \in BotTypes
    /\ \A i \in 1..Len(participants) : participants[i].bot_type \in BotTypes

\* C17 (SpecBot): end_session takes the session out of the registry, leaves
\* every other session and the persisted records as they were, and changes
\* nothing for an id that is not in the registry; get_bot_response for an id
\* that was created and has been ended raises and changes nothing.
C17_EndSession ==
    [][/\ op'.name = "end_session" =>
             /\ op'.session_id \notin DOMAIN sessions'
             /\ DOMAIN sessions' = DOMAIN sessions \ {op'.session_id}
             /\ \A s \in DOMAIN sessions' : sessions'[s] = sessions[s]
             /\ op'.session_id \notin DOMAIN sessions => sessions' = sessions
             /\ UNCHANGED dbVars
       /\ (/\ op'.name = "get_bot_response"
           /\ op'.session_id \in issued
           /\ op'.session_id \notin DOMAIN sessions) =>
             /\ result'.kind = "raise"
             /\ sessions' = sessions]_vars

C17_Witness ==
    /\ op.name = "get_bot_response"
    /\ op.session_id = "s1"
    /\ "s1" \in issued
    /\ "s1" \notin DOMAIN sessions
    /\ result.kind = "raise"
    /\ "s2" \in DOMAIN sessions
    /\ sessions["s2"].history # <<>>

\* C18 (SpecTracker): once a conversation is not active, no step makes it
\* active again, none takes its is_complete back, and none counts a further
\* user message for it.
C18_TerminalIsTerminal ==
    [][\A s \in DOMAIN conversations :
          (~conversations[s].is_active /\ s \in DOMAIN conversations') =>
              /\ ~conversations'[s].is_active
              /\ conversations[s].is_complete => conversations'[s].is_complete
              /\ conversations'[s].current_message_num = conversations[s].current_message_num]_vars

\* C19 (SpecConcurrent): no two active sessions carry the same participant id,
\* and no two persisted participants do.
C19_ParticipantIdUnique ==
    /\ \A s \in DOMAIN active_sessions, t \in DOMAIN active_sessions :
          s # t => active_sessions[s].participant_id # active_sessions[t].participant_id
    /\ \A i \in 1..Len(participants), j \in 1..Len(participants) :
          i # j => participants[i].id # participants[j].id

\* C20 (SpecApp): in one browser session at most one participant record is
\* ever created; it is created by the consent step, with the participant id of
\* the session, and a user turn, a rerun or the completion run creates none;
\* from consent on exactly one record carries the session's participant id.
C20_OneParticipantPerConversation ==
    [][/\ Len(participants') <= 1
       /\ Len(participants') > Len(participants) =>
             /\ op'.name = "welcome"
             /\ participants'[Len(participants')].id = st'.participant_id
       /\ op'.name \in {"user_turn", "rerun", "complete"} =>
             [i \in 1..Len(participants') |-> participants'[i].id]
                 = [i \in 1..Len(participants) |-> participants[i].id]
       /\ ~st'.show_welcome =>
             Cardinality({i \in 1..Len(participants') :
                             participants'[i].id = st'.participant_id}) = 1]_vars

C20_Witness ==
    /\ op.name = "user_turn"
    /\ st.current_message_num = 2
    /\ Len(participants) = 1
    /\ participants[1].id = st.participant_id
    /\ sessions[st.session_id].history # <<>>


\* the count a distribution gives a bot type, 0 when it does not list it
CountIn(distribution, b) == IF b \in DOMAIN distribution THEN distribution[b] ELSE 0

\* C21 (SpecConcurrent): balance is only soft under concurrency. A caller that
\* persists its participant while the distribution is still the one its
\* assign_bot_type read keeps the per-variant counts within 1 of each other; the
\* counts come to differ by more than 1 only through a caller that persists a
\* variant chosen from a distribution another caller has changed since.
C21_SoftBalance ==
    [][\A c \in Callers :
          (/\ pending[c] # "" /\ pending'[c] = ""
           /\ seen[c].distribution = bot_distribution(participants)
           /\ Spread(bot_distribution(participants)) <= 1)
          => Spread(bot_distribution(participants')) <= 1]_vars

C21_Witness ==
    /\ Len(participants) = 2
    /\ participants[1].bot_type = participants[2].bot_type
    /\ Spread(bot_distribution(participants)) > 1

\* C27 (SpecDistribution): equal_distribution assignment on a distribution that
\* is empty or lacks bot types does not fail and returns a bot type whose count,
\* with every absent bot type counted as 0, is the smallest.
C27_AbsentCountsAsZero ==
    \A c \in Callers :
        (seen[c].read /\ assigned[c] # "") =>
            /\ assigned[c] # ValueError
            /\ \A b \in BotTypes :
                   CountIn(seen[c].distribution, assigned[c]) <= CountIn(seen[c].distribution, b)


\* C28 (SpecSequential): the sequential strategy returns the variant at index
\* (participants persisted so far) mod (number of variants) in the fixed variant
\* order, and under serialized assign-then-persist steps the counts of the
\* variants never differ by more than 1.
C28_SequentialRoundRobin ==
    /\ \A c \in Callers :
           assigned[c] # "" =>
               assigned[c] =
                   BOT_CHOICES[(total_participants(participants) % Len(BOT_CHOICES)) + 1]
    /\ \A a, b \in BotTypes :
           CountIn(bot_distribution(participants), a)
               - CountIn(bot_distribution(participants), b) <= 1


\* C29 (SpecStrategies): assign_bot_type, with any strategy, leaves the persisted
\* participants, and so the distribution and the total count, as they were; the
\* distribution and the total change only in a step in which a caller persists
\* the participant it holds an assignment for.
C29_BalancerOnlyReads ==
    [][/\ (\E c \in Callers : assigned[c] = "" /\ assigned'[c] # "") =>
              /\ participants' = participants
              /\ bot_distribution(participants') = bot_distribution(participants)
              /\ total_participants(participants') = total_participants(participants)
       /\ (\/ bot_distribution(participants') # bot_distribution(participants)
           \/ total_participants(participants') # total_participants(participants)) =>
              \E c \in Callers :
                  /\ assigned[c] # "" /\ assigned'[c] = ""
                  /\ Len(participants') = Len(participants) + 1
                  /\ participants'[Len(participants')].bot_type = assigned[c]]_vars

C29_Witness ==
    /\ assigned["c1"] # ""
    /\ total_participants(participants) >= 2
    /\ seen["c1"].distribution = bot_distribution(participants)


\* C22 (SpecBot): an operation on one session id (create, clear turn, crisis
\* turn, failed turn, end) leaves every other session as it was: its entry in
\* the BotManager registry (variant, participant, history) and its tracked
\* conversation (counter, flags, log) are unchanged, whatever the interleaving.
C22_SessionsDisjoint ==
    [][/\ \A b \in DOMAIN sessions :
              b # op'.session_id => (b \in DOMAIN sessions' /\ sessions'[b] = sessions[b])
       /\ \A b \in DOMAIN conversations :
              b # op'.session_id =>
                  (b \in DOMAIN conversations' /\ conversations'[b] = conversations[b])]_vars

C22_Witness ==
    /\ op.name = "get_bot_response" /\ op.session_id = "s1" /\ api.called
    /\ "s2" \in DOMAIN sessions
    /\ sessions["s2"].history # <<>>
    /\ sessions["s2"].bot_type # sessions["s1"].bot_type


\* C23 (SpecBot): a get_bot_response that short-circuits on a crisis leaves the
\* session's history, and the rest of the registry, as it was: neither the user
\* message nor the safety reply is appended.
C23_CrisisTurnKeepsHistory ==
    [][(op'.name = "get_bot_response" /\ result'.crisis_detected) =>
          /\ sessions'[op'.session_id].history = sessions[op'.session_id].history
          /\ sessions' = sessions]_vars

C23_Witness ==
    /\ op.name = "get_bot_response" /\ result.crisis_detected
    /\ sessions[op.session_id].history = <<Msg("user", Clear1), Msg("assistant", strip(ApiOk.content))>>


\* even length, and user and assistant entries in turn
Alternates(history) ==
    /\ Len(history) % 2 = 0
    /\ \A i \in 1..Len(history) :
           history[i].role = (IF i % 2 = 1 THEN "user" ELSE "assistant")

\* every history in the registry alternates and has even length
HistoriesAlternate == \A s \in DOMAIN sessions : Alternates(sessions[s].history)

\* C24 (SpecApp): a session's history always has even length and alternates
\* user, assistant, user, assistant ...; a clear turn appends exactly the user
\* message followed by the assistant reply, and nothing else appends to the
\* history or removes from it.
C24_HistoryOnlyGrowsByClearTurns ==
    [][/\ HistoriesAlternate'
       /\ \A s \in DOMAIN sessions \cap DOMAIN sessions' :
              \/ sessions'[s].history = sessions[s].history
              \/ /\ op'.name \in {"user_turn", "get_bot_response"}
                 /\ op'.session_id = s /\ api'.called
                 /\ sessions'[s].history =
                        sessions[s].history
                            \o <<Msg("user", op'.user_message),
                                 Msg("assistant", result'.bot_response)>>]_vars


\* C30 (SpecTimeout): when the caller has given up waiting for a turn's
\* completion call and the call returns afterwards, the late reply is not
\* appended to the session history and the turn yields no result.
C30_LateResultDiscarded ==
    [][(inflight.active /\ ~inflight.waiting /\ ~inflight'.active) =>
          /\ sessions' = sessions
          /\ result'.kind # "return"]_vars


C26_CrisisTurnPersisted ==
    (op.name = "user_turn" /\ result.crisis_detected) =>
        LET n == Len(db_messages)
            turn == CountRole(st.messages, "user")
        IN  /\ n >= 2
            /\ st.current_message_num = turn
            /\ db_messages[n - 1].participant_id = st.participant_id
            /\ db_messages[n - 1].sender = "user"
            /\ db_messages[n - 1].content = op.user_message
            /\ db_messages[n - 1].message_num = turn
            /\ db_messages[n].participant_id = st.participant_id
            /\ db_messages[n].sender = "bot"
            /\ db_messages[n].content = _crisis_text(crisis, crisis_file)
            /\ db_messages[n].message_num = turn
            /\ db_messages[n].contains_crisis_keyword

C26_Witness ==
    /\ op.name = "user_turn" /\ result.crisis_detected
    /\ st.current_message_num = 2
    /\ db_messages[4].message_num = 2 /\ db_messages[4].contains_crisis_keyword
    /\ ~db_messages[2].contains_crisis_keyword


\* the entries of a tracked conversation's log that a given sender wrote
CountSender(messages, sender) ==
    Cardinality({i \in 1..Len(messages) : messages[i].sender = sender})

\* C31 (SpecTracker): with a cap of at least 1, a tracked conversation has
\* is_complete exactly when its counter has reached the cap: it starts false,
\* and the only step that turns it from false to true is an add_message on that
\* conversation.
C31_CompleteExactlyAtCap ==
    [][\A s \in DOMAIN conversations' :
          /\ conversations'[s].is_complete <=>
                 conversations'[s].current_message_num >= conversations'[s].max_messages
          /\ (op'.name = "start_conversation" /\ op'.session_id = s) =>
                 ~conversations'[s].is_complete
          /\ (/\ s \in DOMAIN conversations
              /\ ~conversations[s].is_complete
              /\ conversations'[s].is_complete) =>
                 (op'.name = "add_message" /\ op'.session_id = s)]_vars

C31_Witness ==
    /\ op.name = "end_conversation"
    /\ op.session_id \in DOMAIN conversations
    /\ conversations[op.session_id].is_complete
    /\ \E t \in DOMAIN conversations :
           conversations[t].ended /\ ~conversations[t].is_complete

\* C32 (SpecTracker): end_conversation on a known session sets is_active false,
\* records that it ended and the reason given, sets is_complete only when the
\* counter has reached the cap, and changes nothing else; on an unknown session
\* id it changes nothing at all.
C32_EndConversation ==
    [][op'.name = "end_conversation" =>
          IF op'.session_id \in DOMAIN conversations
          THEN LET before == conversations[op'.session_id]
               IN  conversations' =
                      [conversations EXCEPT ![op'.session_id] =
                          [before EXCEPT
                              !.is_active = FALSE,
                              !.ended = TRUE,
                              !.end_reason = op'.user_message,
                              !.is_complete =
                                  before.current_message_num >= before.max_messages]]
          ELSE conversations' = conversations]_vars

C32_Witness ==
    /\ op.name = "end_conversation"
    /\ op.session_id \in DOMAIN conversations
    /\ conversations[op.session_id].end_reason = "user_left"
    /\ conversations[op.session_id].current_message_num = 1
    /\ conversations[op.session_id].max_messages = 2
    /\ ~conversations[op.session_id].is_complete
    /\ ~conversations[op.session_id].is_active

\* C37 (SpecTracker): a tracked conversation's counter equals the number of
\* entries of its log whose sender is the user; an add_message from the bot
\* adds an entry to the log and leaves the counter as it was.
C37_CounterCountsUserEntries ==
    [][\A s \in DOMAIN conversations' :
          /\ conversations'[s].current_message_num =
                 CountSender(conversations'[s].messages, "user")
          /\ (/\ op'.name = "add_message" /\ op'.session_id = s
              /\ s \in DOMAIN conversations) =>
                 LET log == conversations'[s].messages
                 IN  /\ Len(log) = Len(conversations[s].messages) + 1
                     /\ SubSeq(log, 1, Len(log) - 1) = conversations[s].messages
                     /\ log[Len(log)].sender = "bot" =>
                            conversations'[s].current_message_num =
                                conversations[s].current_message_num]_vars

C37_Witness ==
    /\ op.name = "add_message"
    /\ op.session_id \in DOMAIN conversations
    /\ Len(conversations[op.session_id].messages) = 3
    /\ conversations[op.session_id].messages[3].sender = "bot"
    /\ conversations[op.session_id].current_message_num = 1

\* C38 (SpecTracker): in every state of the tracker a complete conversation is
\* not active; should_end_conversation is true for a session id exactly when
\* is_conversation_active is false for it, unknown ids included; and the
\* active and the completed count of get_statistics together do not exceed the
\* total.
C38_FlagsAndQueriesConsistent ==
    /\ \A s \in DOMAIN conversations :
           conversations[s].is_complete => ~conversations[s].is_active
    /\ \A s \in SessionIds :
           should_end_conversation(conversations, s) <=>
               ~is_conversation_active(conversations, s)
    /\ get_statistics(conversations).active_conversations
           + get_statistics(conversations).completed_conversations
           <= get_statistics(conversations).total_conversations

C38_Witness ==
    /\ DOMAIN conversations = {"s1"}
    /\ conversations["s1"].ended
    /\ ~conversations["s1"].is_complete
    /\ should_end_conversation(conversations, "s1")
    /\ should_end_conversation(conversations, "s2")
    /\ get_statistics(conversations).total_conversations = 1


\* the persisted messages a given sender wrote
SavedBy(sender) == SelectSeq(db_messages, LAMBDA m : m.sender = sender)

\* C35 (SpecApp): in every state of the participant flow the message counter is
\* between 0 and max_messages; a user turn is accepted only while the counter is
\* below the cap, so no more than max_messages user messages are shown, counted
\* or persisted, and none is persisted under a number above the cap.
C35_CounterWithinCap ==
    /\ 0 <= st.current_message_num
    /\ st.current_message_num <= max_messages
    /\ CountRole(st.messages, "user") = st.current_message_num
    /\ Len(SavedBy("user")) = st.current_message_num
    /\ \A i \in 1..Len(db_messages) : db_messages[i].message_num \in 1..max_messages
    /\ op.name = "user_turn" => st.current_message_num - 1 < max_messages

C35_Witness ==
    /\ op.name = "user_turn"
    /\ max_messages = 2
    /\ st.current_message_num = 2
    /\ Len(SavedBy("user")) = 2

\* C36 (SpecApp): persisted turn numbers are contiguous: the k-th persisted
\* user message carries turn number k, so no number is skipped or used twice,
\* and every persisted bot message directly follows the user message of its
\* turn and carries the same number and participant.
C36_TurnNumbersContiguous ==
    /\ \A k \in 1..Len(SavedBy("user")) : SavedBy("user")[k].message_num = k
    /\ \A i \in 1..Len(db_messages) :
           db_messages[i].sender = "bot" =>
               /\ i > 1
               /\ db_messages[i - 1].sender = "user"
               /\ db_messages[i - 1].message_num = db_messages[i].message_num
               /\ db_messages[i - 1].participant_id = db_messages[i].participant_id
    /\ Len(SavedBy("bot")) <= Len(SavedBy("user"))

C36_Witness ==
    /\ Len(db_messages) = 6
    /\ [i \in 1..6 |-> db_messages[i].message_num] = <<1, 1, 2, 2, 3, 3>>
    /\ db_messages[4].contains_crisis_keyword
    /\ api.failed


\* the persisted record of a participant id
ParticipantRecord(ps, participant_id) ==
    ps[CHOOSE i \in 1..Len(ps) : ps[i].id = participant_id]

\* C33 (SpecApp): a session leaves the live registry only with its terminal
\* state persisted: in the step that removes a session of the participant flow
\* from the BotManager registry the conversation is complete and the
\* participant's record is marked completed, and a session marked complete is
\* removed from the active sessions only with its record marked completed.
C33_TerminalStatePersistedFirst ==
    [][/\ \A s \in DOMAIN sessions \ DOMAIN sessions' :
              /\ op'.name = "complete"
              /\ st'.conversation_complete
              /\ ParticipantRecord(participants', sessions[s].participant_id).completed
       /\ \A s \in DOMAIN active_sessions \ DOMAIN active_sessions' :
              active_sessions[s].conversation_complete =>
                  ParticipantRecord(participants', active_sessions[s].participant_id).completed]_vars

C33_Witness ==
    /\ op.name = "complete"
    /\ st.session_id \notin DOMAIN sessions
    /\ st.current_message_num = max_messages
    /\ ParticipantRecord(participants, st.participant_id).completed

\* C34 (SpecSessions): whenever a session leaves the active sessions, by an
\* explicit end or by the cleanup of stale sessions, its participant is
\* persisted with completed equal to the session's conversation_complete:
\* false for a session that was never marked complete, true for one that was.
C34_AbandonedPersistedIncomplete ==
    [][\A s \in DOMAIN active_sessions \ DOMAIN active_sessions' :
          ParticipantRecord(participants', active_sessions[s].participant_id).completed =
              active_sessions[s].conversation_complete]_vars

C34_Witness ==
    /\ Len(participants) = 3
    /\ DOMAIN active_sessions = {}
    /\ participants[1].completed
    /\ ~participants[2].completed
    /\ ~participants[3].completed

====
